---- MODULE Spec2Model ----
(***************************************************************************)
(* Model of the network-monitoring engine of backend/app/routers/monitor.py *)
(* (class MonitorManager and the routes that drive it).                     *)
(*                                                                          *)
(* Scheduling.  The coroutines of the engine (start, stop, register_ws,     *)
(* unregister_ws and one iteration of each periodic loop) run on one        *)
(* asyncio event loop: between two awaits nothing else of the event loop    *)
(* runs, so each of them is one action.  The packet-capture worker is a     *)
(* real thread (threading.Thread, monitor.py:125): its callback cb is cut   *)
(* into one action per access to a structure it shares with the event loop  *)
(* (_syn_counts, _alerts, _logs, _stop_sniff), and these actions interleave *)
(* freely with the actions of the event loop and of any other worker.       *)
(*                                                                          *)
(* Numbers.  Throughput values, the EWMA baseline and the z-scores are      *)
(* exact rationals [n, d] in mbps where the code computes in binary         *)
(* doubles.                                                                 *)
(***************************************************************************)
EXTENDS Integers, Sequences, FiniteSets, TLC

(***************************************************************************)
(* Bounds of the model.                                                    *)
(***************************************************************************)
\* ALERT_BUFFER and LOG_BUFFER are read from the environment (monitor.py:38-39,
\* defaults 200 and 500); the model runs a configuration with small capacities.
ALERT_BUFFER == 2
LOG_BUFFER == 3
\* start() calls that find the engine stopped (each creates four tasks and,
\* with scapy, one capture thread).
MaxRuns == 2
\* Alerts inserted in one behaviour (length of the history histA).
MaxAlerts == 4
\* Throughput ticks in one behaviour, the seeding one included.
MaxTicks == 4
\* Frames captured on the interface in one behaviour (length of wire).
MaxPkts == 3
\* Device scans in one behaviour.
MaxScans == 2
\* Broadcast passes in one behaviour.
MaxCasts == 2
\* The alerts and the logs of a snapshot: 20 and 50 in the source
\* (monitor.py:380-381), scaled with ALERT_BUFFER and LOG_BUFFER.
SNAP_ALERTS == 1
SNAP_LOGS == 2

(***************************************************************************)
(* Program constants.                                                      *)
(***************************************************************************)
SYN_BURST == 50                  \* monitor.py:233
HIGH_TRAFFIC_MBPS == 50          \* monitor.py:36 (default)
ANOMALY_STD_THRESHOLD == 3       \* monitor.py:35 (default 3.0)
SENSITIVE_PORTS == {22, 23, 3389, 445, 1433}      \* monitor.py:242
AMPLIFICATION_PORTS == {53, 123, 1900}            \* monitor.py:252
SYN_FLAG == 2                    \* 0x02, monitor.py:231
ACK_FLAG == 16                   \* 0x10, monitor.py:231

NoIp == "None"                   \* Python's None in source_ip / ip_address

(***************************************************************************)
(* Exact rational arithmetic: [n |-> numerator, d |-> denominator > 0],    *)
(* always in lowest terms.                                                 *)
(***************************************************************************)
RECURSIVE GCD(_, _)
GCD(a, b) == IF b = 0 THEN a ELSE GCD(b, a % b)

AbsInt(x) == IF x < 0 THEN -x ELSE x

Rat(n, d) ==
    LET g == GCD(AbsInt(n), d)
    IN  [n |-> n \div g, d |-> d \div g]

RInt(k) == [n |-> k, d |-> 1]

RAdd(a, b) ==
    LET g == GCD(a.d, b.d)
    IN  Rat(a.n * (b.d \div g) + b.n * (a.d \div g), (a.d \div g) * b.d)

RSub(a, b) == RAdd(a, [n |-> -b.n, d |-> b.d])

RMul(a, b) ==
    LET g1 == GCD(AbsInt(a.n), b.d)
        g2 == GCD(AbsInt(b.n), a.d)
    IN  Rat((a.n \div g1) * (b.n \div g2), (a.d \div g2) * (b.d \div g1))

\* a / b for b > 0
RDiv(a, b) == RMul(a, [n |-> b.d, d |-> b.n])

RAbs(a) == [n |-> AbsInt(a.n), d |-> a.d]

RLeq(a, b) ==
    LET g == GCD(a.d, b.d)
    IN  a.n * (b.d \div g) <= b.n * (a.d \div g)

RGeq(a, b) == RLeq(b, a)

RGt(a, b) == ~RLeq(a, b)

RMax(a, b) == IF RLeq(a, b) THEN b ELSE a

\* round(n / d) to the nearest integer, ties to even (Python's round), n >= 0
RoundDiv(n, d) ==
    LET q == n \div d
        r == n % d
    IN  IF 2 * r > d THEN q + 1
        ELSE IF 2 * r < d THEN q
        ELSE IF q % 2 = 0 THEN q ELSE q + 1

\* round(z, 2) of a rational z >= 0, in hundredths
Round2(z) ==
    LET g == GCD(100, z.d)
    IN  RoundDiv(z.n * (100 \div g), z.d \div g)

(***************************************************************************)
(* Data model (monitor.py:44-59).                                          *)
(***************************************************************************)
Alert(ts, atype, severity, source_ip, message, details) ==
    [timestamp |-> ts, type |-> atype, severity |-> severity,
     source_ip |-> source_ip, message |-> message, details |-> details]

SecurityLog(ts, level, source, message, ip) ==
    [timestamp |-> ts, level |-> level, source |-> source,
     message |-> message, ip_address |-> ip]

(***************************************************************************)
(* Identities of the model.                                                *)
(***************************************************************************)
IPs == {"10.0.0.5", "10.0.0.9"}
Clients == {"ws1"}
RunIds == 1 .. MaxRuns
WorkerIds == RunIds              \* the capture thread of the r-th run
TaskIds == 1 .. 4 * MaxRuns      \* the four loop tasks of the r-th run
TasksOfRun(r) == << 4 * (r - 1) + 1, 4 * (r - 1) + 2, 4 * (r - 1) + 3, 4 * (r - 1) + 4 >>
\* start() creates them in this order (monitor.py:114-119)
LoopOf(id) ==
    CASE id % 4 = 1 -> "throughput"
      [] id % 4 = 2 -> "device_scan"
      [] id % 4 = 3 -> "housekeeping"
      [] OTHER      -> "broadcast"

VARIABLES
    \* lifecycle (monitor.py:76-78, 103-104)
    running,        \* self.running
    tasks,          \* self._tasks: the task handles, in creation order
    taskSt,         \* each task: "none" (not created), "alive" (scheduled or
                    \* suspended at its sleep), "cancel" (cancel() requested,
                    \* CancelledError not yet delivered), "done"
    runs,           \* how many times start() created tasks
    scapy,          \* the module constant SCAPY (monitor.py:22-26)
    stop_sniff,     \* self._stop_sniff
    sniff_thread,   \* self._sniff_thread: 0 (None) or the last thread started
    wk,             \* each capture thread: its position in _sniff_packets and cb's locals
    \* stores (monitor.py:81-86, 96, 100)
    alerts,         \* self._alerts
    logs,           \* self._logs
    devices,        \* self._devices: ip -> device
    clients,        \* self._clients
    syn_counts,     \* self._syn_counts (a defaultdict(int): absent reads as 0)
    \* throughput and anomaly baseline (monitor.py:84-93)
    latest_in, latest_out, status,
    baseline_init, in_avg, out_avg, in_std, out_std,
    \* history variables (not program state)
    histA,          \* every alert appended to _alerts, in order
    lastIns,        \* the last two insertions into _alerts / _logs
    lastOp,         \* what the last step was
    lastTick,       \* the last throughput tick: its samples, z-scores and alerts
    samples,        \* the samples of all throughput ticks, in order
    synSeen,        \* per source, SYN-without-ACK packets captured since the last clear
    synIncs,        \* per source, increments of its counter completed since the last clear
    lastScan,       \* the last device scan: the table before it, what the probe and
                    \* the host lookup gave it and what it returned
    bc,             \* the broadcast pass in progress or last finished: the frame of
                    \* _loop_broadcast / _broadcast of the task bc.owner
    castLog,        \* what the broadcast loops did: snapshots built, serialisations,
                    \* passes begun and every send attempted, in order; the
                    \* observers a "Client disconnected" entry was logged for (bye),
                    \* in order, and those whose connection handler has ended (hung)
    everReg,        \* the WebSocket objects register_ws was ever called with
    wire            \* the frames captured on the interface since the initial state,
                    \* each with the alerts raised for it, its ordinal among the
                    \* SYN packets of its source in the housekeeping window and
                    \* the number of general packet logs appended for it

lifeVars == << running, tasks, taskSt, runs, scapy, stop_sniff, sniff_thread >>
storeVars == << alerts, logs, histA, lastIns >>
tableVars == << devices, clients >>
scanVars == << lastScan >>
castVars == << bc, castLog, everReg >>
anomVars == << latest_in, latest_out, status, baseline_init, in_avg, out_avg,
               in_std, out_std, lastTick, samples >>
synVars == << syn_counts, synSeen, synIncs, wire >>
vars == << lifeVars, wk, storeVars, tableVars, scanVars, castVars, anomVars, synVars, lastOp >>

\* the variables of the program, without the history variables
progVars == << running, tasks, taskSt, scapy, stop_sniff, sniff_thread, wk,
               alerts, logs, devices, clients, syn_counts,
               latest_in, latest_out, status, baseline_init,
               in_avg, out_avg, in_std, out_std >>

(***************************************************************************)
(* Alert / log store.                                                      *)
(***************************************************************************)
\* a bounded buffer that drops the new entry when it is full
BufAppendDropNewest(buf, e, cap) ==
    IF Len(buf) < cap THEN Append(buf, e) ELSE buf

\* deque(maxlen=cap).append(e): a full deque drops its oldest entry
BufAppend(buf, e, cap) ==
    IF cap = 0 THEN << >>
    ELSE IF Len(buf) < cap THEN Append(buf, e)
    ELSE Append(Tail(buf), e)

PushIns(ins, ev) == IF Len(ins) < 2 THEN Append(ins, ev) ELSE << ins[2], ev >>

\* The stores as one value, so that a handler's insertions compose.
Stores == [alerts |-> alerts, logs |-> logs, histA |-> histA, ins |-> lastIns]

PutAlert(S, a) ==
    [S EXCEPT !.alerts = BufAppend(@, a, ALERT_BUFFER),
              !.histA = Append(@, a),
              !.ins = PushIns(@, [store |-> "alert", e |-> a])]

PutLog(S, l) ==
    [S EXCEPT !.logs = BufAppend(@, l, LOG_BUFFER),
              !.ins = PushIns(@, [store |-> "log", e |-> l])]

\* the log entry _raise_alert derives from its alert
DerivedLog(a) ==
    SecurityLog(a.timestamp,
                IF a.severity # "low" THEN "WARN" ELSE "INFO",
                "detector",
                a.type \o ": " \o a.message,
                a.source_ip)

\* _raise_alert, as the event loop runs it (no await inside)
RaiseAlert(S, ts, atype, severity, source_ip, message, details) ==
    LET a == Alert(ts, atype, severity, source_ip, message, details)
    IN  PutLog(PutAlert(S, a), DerivedLog(a))

\* a _log that appends its entry twice
LogTwice(S, ts, level, source, message, ip) ==
    PutLog(PutLog(S, SecurityLog(ts, level, source, message, ip)),
           SecurityLog(ts, level, source, message, ip))

\* _log
Log(S, ts, level, source, message, ip) ==
    PutLog(S, SecurityLog(ts, level, source, message, ip))

SetStores(S) ==
    /\ alerts' = S.alerts
    /\ logs' = S.logs
    /\ histA' = S.histA
    /\ lastIns' = S.ins
    /\ Len(S.histA) <= MaxAlerts

(***************************************************************************)
(* Initial state: MonitorManager.__init__ (monitor.py:75-104).             *)
(***************************************************************************)
NoPkt == [ip |-> FALSE, src |-> NoIp, tcp |-> FALSE, flags |-> 0, dport |-> 0,
          udp |-> FALSE, uport |-> 0]
NoPend == [type |-> "none", severity |-> "none", message |-> "", details |-> << >>]
NoWorker == [pc |-> "none", pkt |-> NoPkt, ts |-> 0, tmp |-> 0, pend |-> NoPend,
             al |-> << >>, n |-> 0, erred |-> FALSE]
IdleWorker == [NoWorker EXCEPT !.pc = "idle"]
NoCast == [owner |-> 0, pc |-> "idle", payload |-> << >>, targets |-> << >>,
           i |-> 0, dead |-> << >>]
NoCastLog == [snaps |-> 0, dumps |-> 0, passes |-> 0, sent |-> << >>,
              bye |-> << >>, hung |-> {}]
NoScan == [n |-> 0, before |-> << >>, result |-> << >>, failed |-> FALSE,
           inp |-> [fail |-> FALSE, answered |-> << >>, local |-> "None"]]
NoTick == [seed |-> FALSE, checked |-> FALSE, x_in |-> RInt(0), x_out |-> RInt(0),
           z_in |-> RInt(0), z_out |-> RInt(0), raised |-> << >>]

InitManager ==
    /\ running = FALSE
    /\ tasks = << >>
    /\ taskSt = [id \in TaskIds |-> "none"]
    /\ runs = 0
    /\ stop_sniff = FALSE
    /\ sniff_thread = 0
    /\ wk = [w \in WorkerIds |-> NoWorker]
    /\ alerts = << >>
    /\ logs = << >>
    /\ devices = << >>
    /\ clients = {}
    /\ syn_counts = [ip \in IPs |-> 0]
    /\ latest_in = RInt(0)
    /\ latest_out = RInt(0)
    /\ status = "OK"
    /\ baseline_init = FALSE
    /\ in_avg = RInt(0)
    /\ out_avg = RInt(0)
    /\ in_std = Rat(1, 10)
    /\ out_std = Rat(1, 10)
    /\ histA = << >>
    /\ lastIns = << >>
    /\ lastOp = "init"
    /\ lastTick = NoTick
    /\ samples = << >>
    /\ synSeen = [ip \in IPs |-> 0]
    /\ synIncs = [ip \in IPs |-> 0]
    /\ bc = NoCast
    /\ castLog = NoCastLog
    /\ everReg = {}
    /\ wire = << >>
    /\ lastScan = NoScan

(***************************************************************************)
(* Lifecycle: start and stop (monitor.py:107-139).  The body of            *)
(* `async with self._lock` holds no await, so a call runs from the         *)
(* acquisition of the lock to its release in one step of the event loop    *)
(* and the lock is free whenever a call begins.                            *)
(***************************************************************************)
\* start() without its check of self.running
StartNeverReturnsEarly == FALSE

\* the early return of start(): `if self.running: return`
StartReturnsEarly == running

\* t1, t2: the timestamps of the two _log calls
Start(t1, t2) ==
    IF StartReturnsEarly
    THEN /\ lastOp' = "start_noop"
         /\ UNCHANGED << lifeVars, wk, storeVars, tableVars, scanVars, castVars, anomVars, synVars >>
    ELSE /\ runs < MaxRuns
         /\ running' = TRUE
         /\ runs' = runs + 1
         /\ tasks' = TasksOfRun(runs + 1)
         /\ taskSt' = [id \in TaskIds |->
                         IF \E i \in 1 .. 4 : TasksOfRun(runs + 1)[i] = id
                         THEN "alive" ELSE taskSt[id]]
         /\ IF scapy
            THEN /\ stop_sniff' = FALSE
                 /\ sniff_thread' = runs + 1
                 /\ wk' = [wk EXCEPT ![runs + 1] = [IdleWorker EXCEPT !.n = Len(wire)]]
                 /\ SetStores(Log(Stores, t1, "INFO", "monitor", "Monitoring started", NoIp))
            ELSE /\ UNCHANGED << stop_sniff, sniff_thread, wk >>
                 /\ SetStores(Log(Log(Stores, t1, "INFO", "monitor", "Monitoring started", NoIp),
                                  t2, "WARN", "monitor",
                                  "Scapy not available; packet inspection disabled", NoIp))
         /\ lastOp' = "start"
         /\ UNCHANGED << scapy, tableVars, scanVars, castVars, anomVars, synVars >>

\* start() when self._sniff_thread.start() raises (the thread cannot be
\* launched): what start() did before line 126 stays done, the exception leaves
\* `async with self._lock` and reaches the caller.  t1: the timestamp of _log
StartFails(t1) ==
    /\ ~StartReturnsEarly
    /\ scapy
    /\ runs < MaxRuns
    /\ running' = TRUE
    /\ runs' = runs + 1
    /\ tasks' = TasksOfRun(runs + 1)
    /\ taskSt' = [id \in TaskIds |->
                    IF \E i \in 1 .. 4 : TasksOfRun(runs + 1)[i] = id
                    THEN "alive" ELSE taskSt[id]]
    /\ stop_sniff' = FALSE
    /\ sniff_thread' = runs + 1
    /\ SetStores(Log(Stores, t1, "INFO", "monitor", "Monitoring started", NoIp))
    /\ lastOp' = "start_failed"
    /\ UNCHANGED << scapy, wk, tableVars, scanVars, castVars, anomVars, synVars >>

\* the early return of stop(): `if not self.running: return`
StopReturnsEarly == ~running

\* t.cancel() on every handle: a task that is not finished is asked to cancel
CancelAll(st, handles) ==
    [id \in TaskIds |->
        IF (\E i \in 1 .. Len(handles) : handles[i] = id) /\ st[id] = "alive"
        THEN "cancel" ELSE st[id]]

\* a stop() that keeps its handles
HandlesKept(handles) == handles

\* `self._tasks.clear()`
ClearedHandles(handles) == << >>

Stop(t1) ==
    IF StopReturnsEarly
    THEN /\ lastOp' = "stop_noop"
         /\ UNCHANGED << lifeVars, wk, storeVars, tableVars, scanVars, castVars, anomVars, synVars >>
    ELSE /\ running' = FALSE
         /\ stop_sniff' = TRUE
         /\ taskSt' = CancelAll(taskSt, tasks)
         /\ tasks' = ClearedHandles(tasks)
         /\ SetStores(Log(Stores, t1, "INFO", "monitor", "Monitoring stopped", NoIp))
         /\ lastOp' = "stop"
         /\ UNCHANGED << runs, scapy, sniff_thread, wk, tableVars, scanVars, castVars, anomVars, synVars >>

\* The next iteration of the event loop delivers CancelledError to the tasks
\* stop() cancelled, each at its await (their wake-ups were queued one after the
\* other by stop()): they end without running any more of their loops.
DeliverCancel(st) == [id \in TaskIds |-> IF st[id] = "cancel" THEN "done" ELSE st[id]]

TasksCancelled ==
    /\ \E id \in TaskIds : taskSt[id] = "cancel"
    /\ taskSt' = DeliverCancel(taskSt)
    /\ lastOp' = "other"
    /\ UNCHANGED << running, tasks, runs, scapy, stop_sniff, sniff_thread,
                    wk, storeVars, tableVars, scanVars, castVars, anomVars, synVars >>

\* `while self.running` at the top of a loop, after an iteration's body
AfterIteration(st, id) == [st EXCEPT ![id] = IF running THEN "alive" ELSE "done"]

(***************************************************************************)
(* Observers (monitor.py:141-149).                                         *)
(***************************************************************************)
RegisterWs(c, t1) ==
    /\ c \notin everReg
    /\ clients' = clients \cup {c}
    /\ everReg' = everReg \cup {c}
    /\ SetStores(Log(Stores, t1, "INFO", "ws", "Client connected", NoIp))
    /\ lastOp' = "other"
    /\ UNCHANGED << lifeVars, wk, devices, scanVars, bc, castLog, anomVars, synVars >>

\* an unregister_ws without its test
AlwaysRegistered(ws, cl) == TRUE

\* `if ws in self._clients`
IsRegistered(ws, cl) == ws \in cl

\* unregister_ws called by the connection handler of c, which ends
UnregisterWs(c, t1) ==
    /\ IF IsRegistered(c, clients)
       THEN /\ clients' = clients \ {c}
            /\ SetStores(Log(Stores, t1, "INFO", "ws", "Client disconnected", NoIp))
            /\ castLog' = [castLog EXCEPT !.bye = Append(@, c), !.hung = @ \cup {c}]
       ELSE /\ castLog' = [castLog EXCEPT !.hung = @ \cup {c}]
            /\ UNCHANGED << clients, storeVars >>
    /\ lastOp' = "other"
    /\ UNCHANGED << lifeVars, wk, devices, scanVars, bc, everReg, anomVars, synVars >>

(***************************************************************************)
(* Anomaly detector: _update_anomaly_and_status (monitor.py:321-353).      *)
(***************************************************************************)
ALPHA == Rat(1, 5)               \* alpha = 0.2, monitor.py:329
EPSILON == Rat(1, 1000)          \* 0.001, monitor.py:336

\* the weights of the moving average exchanged
EwmaSwapped(avg, x) == RAdd(RMul(ALPHA, avg), RMul(RSub(RInt(1), ALPHA), x))

\* (1 - alpha) * avg + alpha * x
Ewma(avg, x) == RAdd(RMul(RSub(RInt(1), ALPHA), avg), RMul(ALPHA, x))

\* 0 if std == 0 else abs(x - avg) / max(0.001, std)
ZScore(x, avg, std) ==
    IF std.n = 0 THEN RInt(0)
    ELSE RDiv(RAbs(RSub(x, avg)), RMax(EPSILON, std))

\* z_in >= ANOMALY_STD_THRESHOLD or z_out >= ANOMALY_STD_THRESHOLD
IsAnomaly(z_in, z_out) ==
    \/ RGeq(z_in, RInt(ANOMALY_STD_THRESHOLD))
    \/ RGeq(z_out, RInt(ANOMALY_STD_THRESHOLD))

\* the `else: self._status = "OK"` branch left out
StatusSticky(z_in, z_out, old) == IF IsAnomaly(z_in, z_out) THEN "ALERT" ELSE old

\* the status the non-seeding branch assigns (monitor.py:338-353)
StatusOf(z_in, z_out, old) == IF IsAnomaly(z_in, z_out) THEN "ALERT" ELSE "OK"

\* no seeding branch: the first call already scores against the zero baseline
NeverSeeds(init) == FALSE

\* the first call only seeds the baseline (monitor.py:323-327)
IsSeedingCall(init) == ~init

\* The detector's state after one call with samples x_in, x_out, together with
\* what the call computed: seed (it took the seeding branch), z_in, z_out,
\* anomaly (it raised ThroughputAnomaly).
UpdateAnomalyAndStatus(x_in, x_out) ==
    IF IsSeedingCall(baseline_init)
    THEN [init |-> TRUE, in_avg |-> x_in, out_avg |-> x_out,
          in_std |-> in_std, out_std |-> out_std, status |-> status,
          seed |-> TRUE, z_in |-> RInt(0), z_out |-> RInt(0), anomaly |-> FALSE]
    ELSE LET ia == Ewma(in_avg, x_in)
             oa == Ewma(out_avg, x_out)
             is == Ewma(in_std, RAbs(RSub(x_in, ia)))
             os == Ewma(out_std, RAbs(RSub(x_out, oa)))
             zi == ZScore(x_in, ia, is)
             zo == ZScore(x_out, oa, os)
         IN  [init |-> TRUE, in_avg |-> ia, out_avg |-> oa,
              in_std |-> is, out_std |-> os, status |-> StatusOf(zi, zo, status),
              seed |-> FALSE, z_in |-> zi, z_out |-> zo,
              anomaly |-> IsAnomaly(zi, zo)]

(***************************************************************************)
(* Throughput loop: one iteration of _loop_throughput (monitor.py:156-182).*)
(* The iteration reads the counters and the clock and uses only their      *)
(* differences to the previous reading, which are the inputs here:         *)
(*   dRecv, dSent  now_c.bytes_* - prev.bytes_*  (negative after a reset)  *)
(*   el            now_t - prev_t in microseconds                          *)
(***************************************************************************)
MaxInt(a, b) == IF a >= b THEN a ELSE b

\* round((bytes * 8) / dt / 1_000_000, 3) with dt = max(1e-6, el) seconds
Mbps(bytes, el) ==
    LET dt == MaxInt(1, el)
        g == GCD(8000, dt)
    IN  Rat(RoundDiv((8000 \div g) * bytes, dt \div g), 1000)

\* only the inbound rate compared
IsHighTrafficInboundOnly(x_in, x_out) == RGt(x_in, RInt(HIGH_TRAFFIC_MBPS))

\* in_mbps > HIGH_TRAFFIC_MBPS or out_mbps > HIGH_TRAFFIC_MBPS (monitor.py:171)
IsHighTraffic(x_in, x_out) ==
    \/ RGt(x_in, RInt(HIGH_TRAFFIC_MBPS))
    \/ RGt(x_out, RInt(HIGH_TRAFFIC_MBPS))

\* t1, t2: the timestamps of the two _raise_alert calls
ThroughputTick(id, dRecv, dSent, el, t1, t2) ==
    /\ taskSt[id] = "alive"
    /\ LoopOf(id) = "throughput"
    /\ Len(samples) < MaxTicks
    /\ LET x_in == Mbps(MaxInt(0, dRecv), el)
           x_out == Mbps(MaxInt(0, dSent), el)
           u == UpdateAnomalyAndStatus(x_in, x_out)
           S1 == IF u.anomaly
                 THEN RaiseAlert(Stores, t1, "ThroughputAnomaly", "high", NoIp,
                                 "Throughput anomaly detected",
                                 [in_mbps |-> x_in, out_mbps |-> x_out,
                                  z_in |-> Round2(u.z_in), z_out |-> Round2(u.z_out)])
                 ELSE Stores
           S2 == IF IsHighTraffic(x_in, x_out)
                 THEN RaiseAlert(S1, t2, "HighTraffic", "high", NoIp,
                                 "High traffic volume detected",
                                 [in_mbps |-> x_in, out_mbps |-> x_out,
                                  threshold |-> HIGH_TRAFFIC_MBPS])
                 ELSE S1
       IN  /\ latest_in' = x_in
           /\ latest_out' = x_out
           /\ baseline_init' = u.init
           /\ in_avg' = u.in_avg
           /\ out_avg' = u.out_avg
           /\ in_std' = u.in_std
           /\ out_std' = u.out_std
           /\ status' = u.status
           /\ SetStores(S2)
           /\ lastTick' = [seed |-> u.seed, checked |-> ~u.seed,
                           x_in |-> x_in, x_out |-> x_out,
                           z_in |-> u.z_in, z_out |-> u.z_out,
                           raised |-> SubSeq(S2.histA, Len(histA) + 1, Len(S2.histA))]
           /\ samples' = Append(samples, << x_in, x_out >>)
    /\ taskSt' = AfterIteration(taskSt, id)
    /\ lastOp' = "other"
    /\ UNCHANGED << running, tasks, runs, scapy, stop_sniff, sniff_thread,
                    wk, tableVars, scanVars, castVars, synVars >>

\* psutil.net_io_counters() raises in an iteration: nothing in the coroutine
\* catches it, the exception ends the task (monitor.py:158)
ThroughputReadFails(id) ==
    /\ taskSt[id] = "alive"
    /\ LoopOf(id) = "throughput"
    /\ taskSt' = [taskSt EXCEPT ![id] = "done"]
    /\ lastOp' = "tick_failed"
    /\ UNCHANGED << running, tasks, runs, scapy, stop_sniff, sniff_thread,
                    wk, storeVars, tableVars, scanVars, castVars, anomVars, synVars >>

(***************************************************************************)
(* Housekeeping loop: one iteration of _loop_housekeeping                  *)
(* (monitor.py:201-204).  _last_syn_reset is written and never read: it is *)
(* not modelled.                                                           *)
(***************************************************************************)
\* self._syn_counts.clear()
ClearSyn(counts) == [ip \in IPs |-> 0]

\* A packet captured before the table is cleared does not belong to the window
\* that begins: its ordinal is forgotten.
Housekeeping(id) ==
    /\ taskSt[id] = "alive"
    /\ LoopOf(id) = "housekeeping"
    /\ syn_counts' = ClearSyn(syn_counts)
    /\ synSeen' = [ip \in IPs |-> 0]
    /\ synIncs' = [ip \in IPs |-> 0]
    /\ wire' = [k \in DOMAIN wire |-> [wire[k] EXCEPT !.ord = 0]]
    /\ taskSt' = AfterIteration(taskSt, id)
    /\ lastOp' = "other"
    /\ UNCHANGED << running, tasks, runs, scapy, stop_sniff, sniff_thread, wk,
                    storeVars, tableVars, scanVars, castVars, anomVars >>

(***************************************************************************)
(* Packet capture worker: _sniff_packets and its callback cb                *)
(* (monitor.py:216-275).  A worker's pc:                                    *)
(*   "none"       the thread does not exist                                 *)
(*   "idle"       inside sniff(), waiting for a packet                      *)
(*   "syn_load"   cb, before the read of `self._syn_counts[src] += 1`       *)
(*   "syn_store"  cb, before the write of `self._syn_counts[src] += 1`      *)
(*   "syn_check"  cb, before `if self._syn_counts[src] >= 50`               *)
(*   "syn_detail" cb, before the read for details={"syn_count": ...}        *)
(*   "raise_a"    _raise_alert, before self._alerts.append                  *)
(*   "raise_l"    _raise_alert, before self._logs.append                    *)
(*   "pktlog"     cb, before the general packet log's self._logs.append     *)
(*   "filter"     cb has returned; before stop_filter reads _stop_sniff     *)
(*   "exit"       the thread has ended                                      *)
(***************************************************************************)
HasFlag(flags, bit) == (flags \div bit) % 2 = 1

\* flags & 0x02 and not (flags & 0x10)
IsSynOnly(p) == HasFlag(p.flags, SYN_FLAG) /\ ~HasFlag(p.flags, ACK_FLAG)

CountsSyn(p) == p.ip /\ p.tcp /\ IsSynOnly(p)

\* `if dport in (22, 23, 3389, 445, 1433)`, inside `if TCP in pkt`
IsSensitive(p) == p.tcp /\ p.dport \in SENSITIVE_PORTS

\* `if dport in (53, 123, 1900)`, inside `if UDP in pkt`
IsAmplification(p) == p.udp /\ p.uport \in AMPLIFICATION_PORTS

\* where cb goes on after the UDP rule, after the sensitive-port rule
ContLog == [pc |-> "pktlog", pend |-> NoPend]

ContUdp(p) ==
    IF IsAmplification(p)
    THEN [pc |-> "raise_a",
          pend |-> [type |-> "AmplificationVector", severity |-> "low",
                    message |-> "Burst to UDP port " \o ToString(p.uport),
                    details |-> [dst_port |-> p.uport]]]
    ELSE ContLog

ContSens(p) ==
    IF IsSensitive(p)
    THEN [pc |-> "raise_a",
          pend |-> [type |-> "SensitivePortAccess", severity |-> "medium",
                    message |-> "Traffic to sensitive port " \o ToString(p.dport),
                    details |-> [dst_port |-> p.dport]]]
    ELSE ContUdp(p)

\* where cb goes on after _raise_alert has returned
ContAfter(type, p) ==
    CASE type = "SynScan" -> ContSens(p)
      [] type = "SensitivePortAccess" -> ContUdp(p)
      [] OTHER -> ContLog

\* where cb begins for packet p
ContFirst(p) ==
    IF ~p.ip THEN [pc |-> "filter", pend |-> NoPend]
    ELSE IF p.tcp /\ IsSynOnly(p) THEN [pc |-> "syn_load", pend |-> NoPend]
    ELSE ContSens(p)

\* `if self._syn_counts[src] >= 50`
IsBurst(count) == count >= SYN_BURST

workerFrame == << running, tasks, taskSt, runs, scapy, stop_sniff, sniff_thread,
                  tableVars, scanVars, castVars, anomVars >>

\* a capture thread inside sniff(): its socket is open
Sniffing(w) == wk[w].pc \notin {"none", "exit"}

\* A frame reaches the interface: every open capture socket gets a copy.
Arrive(p) ==
    /\ Len(wire) < MaxPkts
    /\ \E w \in WorkerIds : Sniffing(w)
    /\ LET n == IF CountsSyn(p) THEN synSeen[p.src] + 1 ELSE 0
       IN  /\ wire' = Append(wire, [pkt |-> p, raised |-> << >>, ord |-> n,
                                     logged |-> 0])
           /\ synSeen' = IF CountsSyn(p) THEN [synSeen EXCEPT ![p.src] = n] ELSE synSeen
    /\ lastOp' = "other"
    /\ UNCHANGED << workerFrame, wk, storeVars, syn_counts, synIncs >>

\* sniff() hands the thread's next frame to cb; t: cb's `ts`
WRecv(w, t) ==
    /\ wk[w].pc = "idle"
    /\ wk[w].n < Len(wire)
    /\ LET p == wire[wk[w].n + 1].pkt
           c == ContFirst(p)
       IN  wk' = [wk EXCEPT ![w] = [NoWorker EXCEPT !.pc = c.pc, !.pkt = p,
                                   !.ts = IF p.ip THEN t ELSE 0,
                                   !.pend = c.pend, !.n = wk[w].n + 1,
                                   !.erred = wk[w].erred]]
    /\ lastOp' = "other"
    /\ UNCHANGED << workerFrame, storeVars, synVars >>

WSynLoad(w) ==
    /\ wk[w].pc = "syn_load"
    /\ wk' = [wk EXCEPT ![w].tmp = syn_counts[wk[w].pkt.src], ![w].pc = "syn_store"]
    /\ lastOp' = "other"
    /\ UNCHANGED << workerFrame, storeVars, synVars >>

WSynStore(w) ==
    /\ wk[w].pc = "syn_store"
    /\ syn_counts' = [syn_counts EXCEPT ![wk[w].pkt.src] = wk[w].tmp + 1]
    /\ synIncs' = [synIncs EXCEPT ![wk[w].pkt.src] = @ + 1]
    /\ wk' = [wk EXCEPT ![w].tmp = 0, ![w].pc = "syn_check"]
    /\ lastOp' = "other"
    /\ UNCHANGED << workerFrame, storeVars, synSeen, wire >>

WSynCheck(w) ==
    /\ wk[w].pc = "syn_check"
    /\ LET c == IF IsBurst(syn_counts[wk[w].pkt.src])
                THEN [pc |-> "syn_detail", pend |-> NoPend]
                ELSE ContSens(wk[w].pkt)
       IN  wk' = [wk EXCEPT ![w].pc = c.pc, ![w].pend = c.pend]
    /\ lastOp' = "other"
    /\ UNCHANGED << workerFrame, storeVars, synVars >>

WSynDetail(w) ==
    /\ wk[w].pc = "syn_detail"
    /\ wk' = [wk EXCEPT ![w].pc = "raise_a",
                        ![w].pend = [type |-> "SynScan", severity |-> "medium",
                                     message |-> "Possible SYN scan detected (>=50 SYNs in window)",
                                     details |-> [syn_count |-> syn_counts[wk[w].pkt.src]]]]
    /\ lastOp' = "other"
    /\ UNCHANGED << workerFrame, storeVars, synVars >>

\* _raise_alert up to self._alerts.append(alert); t: its `ts`
WRaiseAlert(w, t) ==
    /\ wk[w].pc = "raise_a"
    /\ LET q == wk[w].pend
           a == Alert(t, q.type, q.severity, wk[w].pkt.src, q.message, q.details)
       IN  /\ SetStores(PutAlert(Stores, a))
           /\ wk' = [wk EXCEPT ![w].pc = "raise_l", ![w].al = << a >>]
           /\ wire' = [wire EXCEPT ![wk[w].n].raised = Append(@, a)]
    /\ lastOp' = "other"
    /\ UNCHANGED << workerFrame, syn_counts, synSeen, synIncs >>

\* the rest of _raise_alert: self._logs.append(SecurityLog(...))
WRaiseLog(w) ==
    /\ wk[w].pc = "raise_l"
    /\ SetStores(PutLog(Stores, DerivedLog(wk[w].al[1])))
    /\ LET c == ContAfter(wk[w].pend.type, wk[w].pkt)
       IN  wk' = [wk EXCEPT ![w].pc = c.pc, ![w].pend = c.pend, ![w].al = << >>]
    /\ lastOp' = "other"
    /\ UNCHANGED << workerFrame, synVars >>

\* the general packet log
WPacketLog(w) ==
    /\ wk[w].pc = "pktlog"
    /\ SetStores(PutLog(Stores, SecurityLog(wk[w].ts, "INFO", "sniffer", "packet",
                                            wk[w].pkt.src)))
    /\ wire' = [wire EXCEPT ![wk[w].n].logged = @ + 1]
    /\ wk' = [wk EXCEPT ![w].pc = "filter"]
    /\ lastOp' = "other"
    /\ UNCHANGED << workerFrame, syn_counts, synSeen, synIncs >>

\* stop_filter=lambda p: self._stop_sniff, evaluated after cb(p) has returned
WStopFilter(w) ==
    /\ wk[w].pc = "filter"
    /\ wk' = [wk EXCEPT ![w] = [NoWorker EXCEPT !.pc = IF stop_sniff THEN "exit" ELSE "idle",
                                               !.n = wk[w].n,
                                               !.erred = wk[w].erred]]
    /\ lastOp' = "other"
    /\ UNCHANGED << workerFrame, storeVars, synVars >>

\* the steps of cb between its entry and its return
CbSteps == {"syn_load", "syn_store", "syn_check", "syn_detail", "raise_a",
            "raise_l", "pktlog"}

CbErrorEndsSniff == "exit"

\* where the thread is after an exception inside cb: `except Exception: pass`
\* ends cb normally, sniff() goes on to evaluate stop_filter
CbErrorCaught == "filter"

\* a statement of cb raises while a packet is processed: the rest of cb is
\* skipped (monitor.py:222, 270-271)
WFail(w) ==
    /\ wk[w].pc \in CbSteps
    /\ wk' = [wk EXCEPT ![w].pc = CbErrorCaught, ![w].tmp = 0, ![w].pend = NoPend,
                        ![w].al = << >>, ![w].erred = TRUE]
    /\ lastOp' = "cb_error"
    /\ UNCHANGED << workerFrame, storeVars, synVars >>

\* sniff() raises: `except Exception as e: self._log("ERROR", "sniffer", ...)`
WSniffError(w, t) ==
    /\ wk[w].pc = "idle"
    /\ SetStores(Log(Stores, t, "ERROR", "sniffer", "Sniffer error", NoIp))
    /\ wk' = [wk EXCEPT ![w].pc = "exit"]
    /\ lastOp' = "other"
    /\ UNCHANGED << workerFrame, synVars >>

(***************************************************************************)
(* Device scan: _scan_devices and the scanning iteration of                *)
(* _loop_device_scan (monitor.py:184-197, 278-319).  A Python dict is a    *)
(* sequence of [key, val] pairs in insertion order.  The input of a scan:  *)
(*   fail      the probe raised (srp with scapy, `arp -a` without)         *)
(*   answered  what the probe returned: pairs [addr, mac]                  *)
(*   local     socket.gethostbyname(hostname), NoIp when it raised         *)
(***************************************************************************)
\* a dict that keeps one entry per insertion
DictPutAppend(dict, k, v) == Append(dict, [key |-> k, val |-> v])

\* dict[k] = v
DictPut(dict, k, v) ==
    IF \E i \in 1 .. Len(dict) : dict[i].key = k
    THEN [i \in 1 .. Len(dict) |->
            IF dict[i].key = k THEN [key |-> k, val |-> v] ELSE dict[i]]
    ELSE Append(dict, [key |-> k, val |-> v])

\* list(dict.values())
DictValues(dict) == [i \in 1 .. Len(dict) |-> dict[i].val]

\* d.get("ip", "")
GetIp(d) == IF "ip" \in DOMAIN d THEN d.ip ELSE ""

\* the entry the probe's branch appends for an answer (monitor.py:287, 305)
ProbeEntry(a) ==
    IF scapy THEN [ips |-> a.addr, mac |-> a.mac] ELSE [ip |-> a.addr, mac |-> a.mac]

\* `devices` before the de-duplication
Collected(inp) ==
    (IF inp.fail THEN << >>
     ELSE [i \in 1 .. Len(inp.answered) |-> ProbeEntry(inp.answered[i])])
    \o (IF inp.local = NoIp THEN << >> ELSE << [ip |-> inp.local, mac |-> ""] >>)

RECURSIVE UniqByIp(_, _)
\* `for d in devices: uniq[d.get("ip", "")] = d`, from the dict `uniq`
UniqByIp(uniq, list) ==
    IF list = << >> THEN uniq
    ELSE UniqByIp(DictPut(uniq, GetIp(Head(list)), Head(list)), Tail(list))

HasKey(e) == e.key # ""

\* what _scan_devices returns: `[v for k, v in uniq.items() if k]`
ScanDevices(inp) == DictValues(SelectSeq(UniqByIp(<< >>, Collected(inp)), HasKey))

RECURSIVE MergeDevices(_, _)
\* `for d in new_devices: self._devices[d["ip"]] = d`
MergeDevices(table, list) ==
    IF list = << >> THEN table
    ELSE MergeDevices(DictPut(table, Head(list).ip, Head(list)), Tail(list))

\* one scanning iteration of the loop; t1: the timestamp of the WARN log
DeviceScan(id, inp, t1) ==
    /\ taskSt[id] = "alive"
    /\ LoopOf(id) = "device_scan"
    /\ lastScan.n < MaxScans
    /\ LET res == ScanDevices(inp)
       IN  /\ devices' = MergeDevices(devices, res)
           /\ lastScan' = [n |-> lastScan.n + 1, before |-> devices,
                           result |-> res, failed |-> inp.fail, inp |-> inp]
    /\ IF scapy /\ inp.fail
       THEN SetStores(Log(Stores, t1, "WARN", "device_scan", "ARP scan failed", NoIp))
       ELSE UNCHANGED storeVars
    /\ lastOp' = "scan"
    /\ UNCHANGED << lifeVars, wk, clients, castVars, anomVars, synVars >>

(***************************************************************************)
(* Broadcast: _loop_broadcast, _snapshot and _broadcast (monitor.py:206-   *)
(* 213, 378-401).  The loop suspends at each `await ws.send_text(text)`;   *)
(* what lies between two suspensions is one step.  The pass state bc:      *)
(*   owner    the task running the pass                                    *)
(*   pc       "send": suspended in the send to targets[i]; "done"          *)
(*   payload  the serialised snapshot `msg`                                *)
(*   targets  list(self._clients), in the iteration order of the set       *)
(*   dead     the local list `dead`                                        *)
(***************************************************************************)
\* the first n entries of a list
SliceFirst(s, n) == SubSeq(s, 1, IF Len(s) > n THEN n ELSE Len(s))

\* Python's s[-n:] for n >= 1
SliceLast(s, n) == SubSeq(s, IF Len(s) > n THEN Len(s) - n + 1 ELSE 1, Len(s))

\* _snapshot(); t: its `ts`
Snapshot(t) ==
    [ts |-> t,
     inbound_mbps |-> latest_in,
     outbound_mbps |-> latest_out,
     status |-> status,
     devices |-> DictValues(devices),
     alerts |-> SliceLast(alerts, SNAP_ALERTS),
     logs |-> SliceLast(logs, SNAP_LOGS)]

\* json.dumps(asdict(snap)): the members of the object in field order
JsonDumps(snap) ==
    << << "ts", snap.ts >>,
       << "inbound_mbps", snap.inbound_mbps >>,
       << "outbound_mbps", snap.outbound_mbps >>,
       << "status", snap.status >>,
       << "devices", snap.devices >>,
       << "alerts", snap.alerts >>,
       << "logs", snap.logs >> >>

\* the orders in which a set can be iterated
Orders(S) ==
    { o \in [1 .. Cardinality(S) -> S] : \A i, j \in DOMAIN o : o[i] = o[j] => i = j }

\* a loop that broadcasts to nobody as well
NeverSkips(cl) == FALSE

\* `if not self._clients: continue`
SkipsBroadcast(cl) == cl = {}

\* a pass that forgets the observers whose send failed
DeadForgotten(dead, c, ok) == dead

\* `except Exception: dead.append(ws)`
DeadAfter(dead, c, ok) == IF ok THEN dead ELSE Append(dead, c)

\* `for ws in dead: self.unregister_ws(ws)`; R: the stores, the registry and
\* the observers logged as disconnected
RECURSIVE UnregisterDead(_, _, _)
UnregisterDead(R, dead, t) ==
    IF dead = << >>
    THEN R
    ELSE LET c == Head(dead)
             R2 == IF IsRegistered(c, R.cl)
                   THEN [S |-> Log(R.S, t, "INFO", "ws", "Client disconnected", NoIp),
                         cl |-> R.cl \ {c},
                         bye |-> Append(R.bye, c)]
                   ELSE R
         IN  UnregisterDead(R2, Tail(dead), t)

\* the loop wakes from its sleep: the check of the registry and, with an
\* observer, the snapshot, its serialisation and the call of _broadcast up to
\* its first send.  order: the iteration order of list(self._clients)
BcastTick(id, order, t) ==
    /\ taskSt[id] = "alive"
    /\ LoopOf(id) = "broadcast"
    /\ ~(bc.pc = "send" /\ bc.owner = id)
    /\ IF SkipsBroadcast(clients)
       THEN /\ taskSt' = AfterIteration(taskSt, id)
            /\ lastOp' = "bcast_skip"
            /\ UNCHANGED << bc, castLog >>
       ELSE /\ castLog.passes < MaxCasts
            /\ order \in Orders(clients)
            /\ bc' = [owner |-> id,
                      pc |-> IF order = << >> THEN "done" ELSE "send",
                      payload |-> JsonDumps(Snapshot(t)),
                      targets |-> order,
                      i |-> IF order = << >> THEN 0 ELSE 1,
                      dead |-> << >>]
            /\ castLog' = [castLog EXCEPT !.snaps = @ + 1, !.dumps = @ + 1,
                                          !.passes = @ + 1]
            /\ taskSt' = IF order = << >> THEN AfterIteration(taskSt, id) ELSE taskSt
            /\ lastOp' = "bcast_tick"
    /\ UNCHANGED << running, tasks, runs, scapy, stop_sniff, sniff_thread, wk,
                    storeVars, tableVars, scanVars, everReg, anomVars, synVars >>

\* the send the pass is suspended in returns (ok) or raises: the next send
\* begins or, after the last one, the failed observers are unregistered and
\* the iteration ends.  t: the timestamp of the logs of unregister_ws
BcastSent(ok, t) ==
    /\ bc.pc = "send"
    /\ taskSt[bc.owner] = "alive"
    /\ LET c == bc.targets[bc.i]
           dead2 == DeadAfter(bc.dead, c, ok)
           R == UnregisterDead([S |-> Stores, cl |-> clients, bye |-> castLog.bye],
                               dead2, t)
       IN  /\ castLog' = [castLog EXCEPT
                             !.sent = Append(@, [to |-> c, payload |-> bc.payload,
                                                 ok |-> ok, pass |-> castLog.passes]),
                             !.bye = IF bc.i = Len(bc.targets) THEN R.bye ELSE @]
           /\ IF bc.i = Len(bc.targets)
              THEN /\ bc' = [bc EXCEPT !.pc = "done", !.dead = dead2]
                   /\ clients' = R.cl
                   /\ SetStores(R.S)
                   /\ taskSt' = AfterIteration(taskSt, bc.owner)
                   /\ lastOp' = "bcast_done"
              ELSE /\ bc' = [bc EXCEPT !.i = @ + 1, !.dead = dead2]
                   /\ lastOp' = "bcast_sent"
                   /\ UNCHANGED << clients, storeVars, taskSt >>
    /\ UNCHANGED << running, tasks, runs, scapy, stop_sniff, sniff_thread, wk,
                    devices, scanVars, everReg, anomVars, synVars >>

(***************************************************************************)
(* Inputs.                                                                 *)
(***************************************************************************)
TcpPkt(src, flags, dport) ==
    [ip |-> TRUE, src |-> src, tcp |-> TRUE, flags |-> flags, dport |-> dport,
     udp |-> FALSE, uport |-> 0]
\* a frame without an IP layer (ARP)
ArpPkt == NoPkt

\* byte-counter differences of one tick: 10 mbps, 60 mbps (rounded), 500 mbps
\* over one second, and a counter reset
Bytes10 == 1250000
Bytes60 == 7500060
Bytes500 == 62500000
CounterReset == -1
Second == 1000000

(***************************************************************************)
(* Spec: the lifecycle from construction.  start, stop, the delivery of    *)
(* cancellations, the housekeeping loop, and capture threads that receive  *)
(* frames without an IP layer or fail inside sniff().                      *)
(***************************************************************************)
Init ==
    /\ InitManager
    /\ scapy \in BOOLEAN

Next ==
    \/ Start(0, 0)
    \/ Stop(0)
    \/ TasksCancelled
    \/ \E id \in TaskIds : Housekeeping(id)
    \/ Arrive(ArpPkt)
    \/ \E w \in WorkerIds : WRecv(w, 0)
    \/ \E w \in WorkerIds : WStopFilter(w)
    \/ \E w \in WorkerIds : WSniffError(w, 0)

Spec == Init /\ [][Next]_vars

(***************************************************************************)
(* SpecAnomaly: the throughput loop of a started engine, fed with rates of *)
(* 0 (a counter reset), 10, 60 and 500 mbps inbound and 10 and 60 mbps     *)
(* outbound.  No other handler writes the detector's state.                *)
(***************************************************************************)
InitScapy ==
    /\ InitManager
    /\ scapy = TRUE

NextAnomaly ==
    \/ Start(0, 0)
    \/ \E id \in TaskIds, r \in {CounterReset, Bytes10, Bytes60, Bytes500},
          x \in {Bytes10, Bytes60} :
          ThroughputTick(id, r, x, Second, 0, 0)

SpecAnomaly == InitScapy /\ [][NextAnomaly]_vars

(***************************************************************************)
(* SpecSniff: one capture thread and the housekeeping loop of a started    *)
(* engine.  It begins in the state the engine is in when, since start()    *)
(* and within one housekeeping window, the thread has processed            *)
(* SYN_BURST - 3 SYN packets of 10.0.0.5 to port 80.                       *)
(***************************************************************************)
SynPkts == { TcpPkt("10.0.0.5", SYN_FLAG, 80), TcpPkt("10.0.0.9", SYN_FLAG, 80) }

PacketLog(t, src) == SecurityLog(t, "INFO", "sniffer", "packet", src)

InitSniff ==
    /\ running = TRUE
    /\ tasks = TasksOfRun(1)
    /\ taskSt = [id \in TaskIds |-> IF id <= 4 THEN "alive" ELSE "none"]
    /\ runs = 1
    /\ scapy = TRUE
    /\ stop_sniff = FALSE
    /\ sniff_thread = 1
    /\ wk = [w \in WorkerIds |-> IF w = 1 THEN IdleWorker ELSE NoWorker]
    /\ alerts = << >>
    /\ logs = [i \in 1 .. LOG_BUFFER |-> PacketLog(0, "10.0.0.5")]
    /\ devices = << >>
    /\ clients = {}
    /\ syn_counts = [ip \in IPs |-> IF ip = "10.0.0.5" THEN SYN_BURST - 3 ELSE 0]
    /\ latest_in = RInt(0)
    /\ latest_out = RInt(0)
    /\ status = "OK"
    /\ baseline_init = FALSE
    /\ in_avg = RInt(0)
    /\ out_avg = RInt(0)
    /\ in_std = Rat(1, 10)
    /\ out_std = Rat(1, 10)
    /\ histA = << >>
    /\ lastIns = << [store |-> "log", e |-> PacketLog(0, "10.0.0.5")],
                    [store |-> "log", e |-> PacketLog(0, "10.0.0.5")] >>
    /\ lastOp = "other"
    /\ lastTick = NoTick
    /\ samples = << >>
    /\ synSeen = [ip \in IPs |-> IF ip = "10.0.0.5" THEN SYN_BURST - 3 ELSE 0]
    /\ synIncs = [ip \in IPs |-> IF ip = "10.0.0.5" THEN SYN_BURST - 3 ELSE 0]
    /\ bc = NoCast
    /\ castLog = NoCastLog
    /\ everReg = {}
    /\ wire = << >>
    /\ lastScan = NoScan

WorkerSteps(w) ==
    \/ WRecv(w, 0)
    \/ WRaiseAlert(w, 0)
    \/ WRaiseLog(w)
    \/ WPacketLog(w)
    \/ WStopFilter(w)

SynSteps(w) ==
    \/ WSynLoad(w)
    \/ WSynStore(w)
    \/ WSynCheck(w)
    \/ WSynDetail(w)

NextSniff ==
    \/ \E p \in SynPkts : Arrive(p)
    \/ \E w \in WorkerIds : WorkerSteps(w)
    \/ \E w \in WorkerIds : SynSteps(w)
    \/ \E id \in TaskIds : Housekeeping(id)

SpecSniff == InitSniff /\ [][NextSniff]_vars

(***************************************************************************)
(* SpecCapture: the engine from construction with the capture facility     *)
(* present: start and stop in any order, and TCP packets to ports 3389 and *)
(* 80 on the interface.                                                    *)
(***************************************************************************)
CapPkts == { TcpPkt("10.0.0.5", SYN_FLAG + ACK_FLAG, 3389),
             TcpPkt("10.0.0.9", ACK_FLAG, 80) }

NextCapture ==
    \/ Start(0, 0)
    \/ Stop(0)
    \/ TasksCancelled
    \/ \E p \in CapPkts : Arrive(p)
    \/ \E w \in WorkerIds : WorkerSteps(w)

SpecCapture == InitScapy /\ [][NextCapture]_vars

(***************************************************************************)
(* SpecStore: the stores of a started engine, written by the throughput    *)
(* loop (60 mbps inbound: a HighTraffic alert on every tick), by the       *)
(* capture thread (packets to ports 3389 and 80) and by the registration   *)
(* of an observer.                                                         *)
(***************************************************************************)
NextStore ==
    \/ Start(0, 0)
    \/ \E id \in TaskIds : ThroughputTick(id, Bytes60, Bytes10, Second, 0, 0)
    \/ \E c \in Clients : RegisterWs(c, 0)
    \/ \E p \in CapPkts : Arrive(p)
    \/ \E w \in WorkerIds : WorkerSteps(w)

SpecStore == InitScapy /\ [][NextStore]_vars

(***************************************************************************)
(* SpecDevices: the device-scan loop of a started engine, with and without *)
(* the capture facility.                                                   *)
(***************************************************************************)
Answer(addr, mac) == [addr |-> addr, mac |-> mac]

Answers == { << >>,
             << Answer("10.0.0.5", "mac1") >>,
             << Answer("10.0.0.5", "mac2"), Answer("10.0.0.9", "mac3") >>,
             << Answer("10.0.0.9", "mac1"), Answer("10.0.0.9", "mac2") >> }

ScanInputs ==
    { [fail |-> FALSE, answered |-> a, local |-> l] :
        a \in Answers, l \in {NoIp, "10.0.0.7"} }
    \cup { [fail |-> TRUE, answered |-> << >>, local |-> l] : l \in {NoIp, "10.0.0.7"} }

NextDevices ==
    \/ Start(0, 0)
    \/ \E id \in TaskIds, inp \in ScanInputs : DeviceScan(id, inp, 0)

SpecDevices == Init /\ [][NextDevices]_vars

(***************************************************************************)
(* SpecThroughput: the throughput loop of a started engine whose counter   *)
(* reads succeed (10 or 60 mbps inbound) or raise.                         *)
(***************************************************************************)
NextThroughput ==
    \/ Start(0, 0)
    \/ \E id \in TaskIds, r \in {Bytes10, Bytes60} :
          ThroughputTick(id, r, Bytes10, Second, 0, 0)
    \/ \E id \in TaskIds : ThroughputReadFails(id)

SpecThroughput == InitScapy /\ [][NextThroughput]_vars

(***************************************************************************)
(* SpecFaulty: one run of the engine whose packet callback may raise at    *)
(* any of its steps.                                                       *)
(***************************************************************************)
NextFaulty ==
    \/ Start(0, 0)
    \/ \E p \in CapPkts : Arrive(p)
    \/ \E w \in WorkerIds : WorkerSteps(w)
    \/ \E w \in WorkerIds : WFail(w)

SpecFaulty == InitScapy /\ [][NextFaulty]_vars

(***************************************************************************)
(* SpecStartup: the lifecycle of an engine whose capture thread may fail   *)
(* to launch.                                                              *)
(***************************************************************************)
NextStartup ==
    \/ Start(0, 0)
    \/ StartFails(0)
    \/ Stop(0)
    \/ TasksCancelled
    \/ Arrive(ArpPkt)
    \/ \E w \in WorkerIds : WRecv(w, 0) \/ WStopFilter(w)

SpecStartup == Init /\ [][NextStartup]_vars

(***************************************************************************)
(* SpecCast: the broadcast loop of a started engine with up to two         *)
(* observers that connect and disconnect.                                  *)
(***************************************************************************)
Observers == {"ws1", "ws2"}

\* the handler of a connection ends: ws_monitor's `except` branches
Disconnect(c) == c \in everReg /\ c \notin castLog.hung /\ UnregisterWs(c, 0)

NextCast ==
    \/ Start(0, 0)
    \/ \E c \in Observers : RegisterWs(c, 0)
    \/ \E c \in Observers : Disconnect(c)
    \/ \E id \in TaskIds, order \in Orders(clients) : BcastTick(id, order, 0)
    \/ \E ok \in BOOLEAN : BcastSent(ok, 0)

SpecCast == Init /\ [][NextCast]_vars

(***************************************************************************)
(* SpecSnap: the broadcast loop of an engine started without the capture   *)
(* facility, with up to two observers, while the throughput loop raises    *)
(* HighTraffic alerts and the device scan finds one device.                *)
(***************************************************************************)
InitPlain == InitManager /\ scapy = FALSE

OneDevice == [fail |-> FALSE, answered |-> << Answer("10.0.0.5", "mac1") >>, local |-> NoIp]

\* a throughput tick at 60 mbps inbound, its alert stamped with its rank, until the alerts outnumber those a
\* snapshot takes
AlertTick(id) ==
    /\ Len(histA) <= SNAP_ALERTS
    /\ ThroughputTick(id, Bytes60, Bytes10, Second, Len(histA) + 1, Len(histA) + 1)

\* the scan that finds the device, before the first pass begins
FirstScan(id) == devices = << >> /\ castLog.passes = 0 /\ DeviceScan(id, OneDevice, 0)

NextSnap ==
    \/ Start(0, 0)
    \/ \E c \in Observers : RegisterWs(c, 0)
    \/ \E id \in TaskIds, order \in Orders(clients) : BcastTick(id, order, 0)
    \/ \E ok \in BOOLEAN : BcastSent(ok, 0)
    \/ \E id \in TaskIds : AlertTick(id)
    \/ \E id \in TaskIds : FirstScan(id)

SpecSnap == InitPlain /\ [][NextSnap]_vars

(***************************************************************************)
(* SpecHalt: an engine without the capture facility that is started and    *)
(* stopped while its throughput loop samples 10 or 500 mbps inbound, its    *)
(* device scan finds one device and an observer registers.                 *)
(***************************************************************************)
NextHalt ==
    \/ Start(0, 0)
    \/ Stop(1)
    \/ TasksCancelled
    \/ \E id \in TaskIds, r \in {Bytes10, Bytes500} :
          ThroughputTick(id, r, Bytes10, Second, 0, 0)
    \/ \E id \in TaskIds : FirstScan(id)
    \/ RegisterWs("ws1", 0)

SpecHalt == InitPlain /\ [][NextHalt]_vars

(***************************************************************************)
(* Claims.                                                                 *)
(***************************************************************************)
CountType(seq, atype) == Cardinality({i \in 1 .. Len(seq) : seq[i].type = atype})

\* the last n entries of a sequence, in order
LastN(seq, n) == SubSeq(seq, IF Len(seq) > n THEN Len(seq) - n + 1 ELSE 1, Len(seq))

\* C1: the alert buffer never holds more than ALERT_BUFFER entries and the log
\* buffer never more than LOG_BUFFER; after any insertions the alert buffer is
\* the last ALERT_BUFFER alerts inserted (all of them when fewer), in insertion
\* order.
C1_BuffersBounded ==
    /\ Len(alerts) <= ALERT_BUFFER
    /\ Len(logs) <= LOG_BUFFER
    /\ alerts = LastN(histA, ALERT_BUFFER)

\* two alerts were evicted, alerts of the loop and of the capture thread inserted
C1_Witness ==
    /\ Len(histA) = ALERT_BUFFER + 2
    /\ Len(logs) = LOG_BUFFER
    /\ CountType(histA, "HighTraffic") >= 1
    /\ CountType(histA, "SensitivePortAccess") >= 1

AliveTasks == {id \in TaskIds : taskSt[id] = "alive"}
Handles == {tasks[i] : i \in 1 .. Len(tasks)}

\* At most one live task per loop, and the live tasks are the handles held.
OneSetOfLoops ==
    /\ \A a, b \in AliveTasks : LoopOf(a) = LoopOf(b) => a = b
    /\ AliveTasks \subseteq Handles
    /\ running => Len(tasks) = 4

\* A step of start() on a running engine, and a step of stop() on a stopped
\* engine, change nothing of the program's state.
NoopCalls ==
    /\ (lastOp' \in {"start", "start_noop"} /\ running) => UNCHANGED progVars
    /\ (lastOp' \in {"stop", "stop_noop"} /\ ~running) => UNCHANGED progVars

\* C2: start() on a running engine changes nothing (one set of four loops, no
\* second capture thread, no second "Monitoring started" log) and stop() on a
\* stopped engine changes nothing, in any order of the calls.
C2_LifecycleIdempotent == []OneSetOfLoops /\ [][NoopCalls]_vars

C2_Witness == lastOp = "start_noop" /\ running /\ Len(tasks) = 4 /\ wk[1].pc = "idle"

\* C3: when stop() returns on a running engine, the four loops and the capture
\* worker have terminated, the handles are cleared and one shutdown entry was
\* logged.
C3_StopAwaitsTermination ==
    lastOp = "stop" =>
        /\ \A id \in TaskIds : taskSt[id] \in {"none", "done"}
        /\ \A w \in WorkerIds : wk[w].pc \in {"none", "exit"}
        /\ tasks = << >>
        /\ Len(logs) >= 1 /\ logs[Len(logs)].message = "Monitoring stopped"

\* C4: an alert's insertion is immediately followed by the insertion of its
\* derived log entry: same timestamp, level WARN unless the severity is low
\* (then INFO), and nothing is inserted between the two.
C4_DerivedLogFollows ==
    (Len(lastIns) = 2 /\ lastIns[1].store = "alert") =>
        /\ lastIns[2].store = "log"
        /\ lastIns[2].e.source = "detector"
        /\ lastIns[2].e.timestamp = lastIns[1].e.timestamp
        /\ lastIns[2].e.level = IF lastIns[1].e.severity = "low" THEN "INFO" ELSE "WARN"

\* C5: status is ALERT exactly when the most recent anomaly check found a
\* z-score at or above the threshold; it is OK before any check and after the
\* seeding one.
C5_StatusIffLastCheck ==
    (status = "ALERT") <=>
        /\ lastTick.checked
        /\ \/ RGeq(lastTick.z_in, RInt(ANOMALY_STD_THRESHOLD))
           \/ RGeq(lastTick.z_out, RInt(ANOMALY_STD_THRESHOLD))

\* an ALERT check followed by a check that found nothing
C5_Witness ==
    /\ Len(samples) >= 3
    /\ lastTick.checked
    /\ status = "OK"
    /\ CountType(histA, "ThroughputAnomaly") >= 1

\* C6: the first anomaly update only seeds the baseline to the sample: no
\* ThroughputAnomaly alert, status not ALERT, whatever the sample.
C6_FirstUpdateSeeds ==
    Len(samples) = 1 =>
        /\ lastTick.seed
        /\ in_avg = samples[1][1]
        /\ out_avg = samples[1][2]
        /\ in_std = Rat(1, 10) /\ out_std = Rat(1, 10)
        /\ status = "OK"
        /\ CountType(histA, "ThroughputAnomaly") = 0

C6_Witness == Len(samples) = 1 /\ samples[1][1] = RInt(500) /\ baseline_init

\* C7: seeded at (10, 10) and fed samples of 10 mbps the status stays OK on each
\* of them, and a following sample of 500 mbps gives ALERT and one
\* ThroughputAnomaly alert on that sample.
Ten == << RInt(10), RInt(10) >>

C7_AnomalyTrigger ==
    LET n == Len(samples)
    IN  (n >= 1 /\ \A i \in 1 .. n - 1 : samples[i] = Ten) =>
            /\ samples[n] = Ten =>
                  /\ status = "OK"
                  /\ CountType(histA, "ThroughputAnomaly") = 0
            /\ (n >= 2 /\ (samples[n][1] = RInt(500) \/ samples[n][2] = RInt(500))) =>
                  /\ status = "ALERT"
                  /\ CountType(lastTick.raised, "ThroughputAnomaly") = 1
                  /\ CountType(histA, "ThroughputAnomaly") = 1

C7_Witness ==
    /\ Len(samples) = 4
    /\ \A i \in 1 .. 3 : samples[i] = Ten
    /\ samples[4][1] = RInt(500)
    /\ status = "ALERT"

\* C8: a throughput tick raises exactly one HighTraffic alert of severity high
\* when the inbound or the outbound rate exceeds HIGH_TRAFFIC_MBPS, whatever the
\* detector found on that tick, and none otherwise.
C8_HighTrafficIndependent ==
    Len(samples) >= 1 =>
        /\ CountType(lastTick.raised, "HighTraffic") =
              IF \/ RGt(latest_in, RInt(HIGH_TRAFFIC_MBPS))
                 \/ RGt(latest_out, RInt(HIGH_TRAFFIC_MBPS))
              THEN 1 ELSE 0
        /\ \A i \in 1 .. Len(lastTick.raised) :
              lastTick.raised[i].type = "HighTraffic" => lastTick.raised[i].severity = "high"

\* a tick on which the detector says OK and only the outbound rate is high
C8_Witness ==
    /\ lastTick.checked
    /\ status = "OK"
    /\ latest_in = RInt(10)
    /\ latest_out = RInt(60)
    /\ CountType(lastTick.raised, "HighTraffic") = 1


\* C9: within one housekeeping window the first 49 SYN-without-ACK packets of a
\* source raise no SynScan alert and the 50th raises exactly one (severity
\* medium, source_ip that source), each source counted on its own.  Stated of
\* the packet whose callback has just returned.
C9_SynScanAtFiftieth ==
    \A w \in WorkerIds :
        (wk[w].pc = "filter" /\ CountsSyn(wk[w].pkt) /\ wire[wk[w].n].ord >= 1) =>
            LET e == wire[wk[w].n]
            IN  /\ e.ord < SYN_BURST => CountType(e.raised, "SynScan") = 0
                /\ e.ord = SYN_BURST =>
                      /\ CountType(e.raised, "SynScan") = 1
                      /\ \A i \in 1 .. Len(e.raised) :
                            e.raised[i].type = "SynScan" =>
                                /\ e.raised[i].severity = "medium"
                                /\ e.raised[i].source_ip = e.pkt.src

\* C10: every TCP packet to one of the ports 22, 23, 3389, 445, 1433 raises
\* exactly one SensitivePortAccess alert, of severity medium and with
\* details.dst_port that port, and a TCP packet to another port raises none.
\* Stated of the IPv4 packets the callback inspects: never more than one alert
\* for a packet, none for another port, and one once a callback for the packet
\* has returned.
C10_OneSensitiveAlertPerPacket ==
    \A k \in 1 .. Len(wire) :
        LET e == wire[k]
            sens == {i \in 1 .. Len(e.raised) : e.raised[i].type = "SensitivePortAccess"}
        IN  (e.pkt.ip /\ e.pkt.tcp) =>
                IF e.pkt.dport \in {22, 23, 3389, 445, 1433}
                THEN /\ Cardinality(sens) <= 1
                     /\ (\E w \in WorkerIds : wk[w].n = k /\ wk[w].pc = "filter")
                            => Cardinality(sens) = 1
                     /\ \A i \in sens : /\ e.raised[i].severity = "medium"
                                         /\ e.raised[i].details.dst_port = e.pkt.dport
                ELSE sens = {}


IpsOf(list) == {list[i].ip : i \in 1 .. Len(list)}

\* C11: the device table holds at most one entry per IP; after a scan the
\* entry of every IP the scan returned is the scan's entry, and the entry of
\* every other IP is the one the table held before: nothing is removed.
C11_DeviceMerge ==
    LET table == DictValues(devices)
        before == DictValues(lastScan.before)
    IN  /\ \A i, j \in 1 .. Len(table) : table[i].ip = table[j].ip => i = j
        /\ \A i \in 1 .. Len(devices) : devices[i].key = devices[i].val.ip
        /\ \A i \in 1 .. Len(lastScan.result) :
              \E j \in 1 .. Len(table) : table[j] = lastScan.result[i]
        /\ \A i \in 1 .. Len(before) :
              before[i].ip \notin IpsOf(lastScan.result) =>
                  \E j \in 1 .. Len(table) : table[j] = before[i]
        /\ IpsOf(table) = IpsOf(before) \cup IpsOf(lastScan.result)

\* {A: mac1} then {A: mac2, B: mac3} gives {A: mac2, B: mac3}
C11_Witness ==
    /\ DictValues(lastScan.before) = << [ip |-> "10.0.0.5", mac |-> "mac1"] >>
    /\ lastScan.result = << [ip |-> "10.0.0.5", mac |-> "mac2"],
                            [ip |-> "10.0.0.9", mac |-> "mac3"] >>
    /\ DictValues(devices) = << [ip |-> "10.0.0.5", mac |-> "mac2"],
                                [ip |-> "10.0.0.9", mac |-> "mac3"] >>

\* C16: a device scan that fails appends an ERROR log entry and leaves the
\* device table as it was before the scan, and the loop goes on.
C16_FailedScanLeavesTable ==
    (lastOp = "scan" /\ lastScan.failed) =>
        /\ devices = lastScan.before
        /\ Len(logs) >= 1
        /\ logs[Len(logs)].level = "ERROR"
        /\ logs[Len(logs)].source = "device_scan"
        /\ \E id \in TaskIds : taskSt[id] = "alive" /\ LoopOf(id) = "device_scan"


\* C14: when the counter read fails on a tick, the tick is skipped with the
\* throughput values of the last successful tick retained, and the throughput
\* loop keeps running to sample again.
C14_FailedReadSkipsTick ==
    lastOp = "tick_failed" =>
        /\ latest_in = lastTick.x_in
        /\ latest_out = lastTick.x_out
        /\ \E id \in TaskIds : taskSt[id] = "alive" /\ LoopOf(id) = "throughput"


\* C15: the capture worker's increment of a source's SYN counter and the
\* housekeeping clear of the table are atomic with respect to each other: no
\* increment and no clear is lost, so each counter is the number of increments
\* completed since the last clear.
C15_SynTableSynchronised ==
    \A ip \in IPs : syn_counts[ip] = synIncs[ip]


\* C17: every inspected IP packet, whatever its protocol and whatever alerts
\* it raised, appends exactly one general log entry (level INFO, source
\* sniffer): never more than one, one once a callback has returned for it, and
\* a packet that is not IP appends none.
C17_OnePacketLogPerPacket ==
    \A k \in 1 .. Len(wire) :
        LET e == wire[k]
        IN  IF e.pkt.ip
            THEN /\ e.logged <= 1
                 /\ (\E w \in WorkerIds : wk[w].n = k /\ wk[w].pc = "filter")
                        => e.logged = 1
            ELSE e.logged = 0


\* C18: an error while one packet is processed is caught and discarded: the
\* capture worker is back in its capture loop, ready for the following
\* packets, and the failure changes no loop task, the running flag or a store.
C18_PacketErrorDiscarded ==
    [][\A w \in WorkerIds :
          (wk[w].pc \in CbSteps /\ wk'[w].erred /\ lastOp' = "cb_error"
              /\ wk'[w] # wk[w]) =>
              /\ wk'[w].pc = "filter"
              /\ taskSt' = taskSt
              /\ running' = running
              /\ alerts' = alerts /\ logs' = logs]_vars

\* a worker whose callback raised on a packet has since processed a later
\* packet to the end of the callback
C18_Witness ==
    \E w \in WorkerIds :
        /\ wk[w].erred
        /\ wk[w].pc = "filter"
        /\ lastOp = "other"
        /\ wire[wk[w].n].logged = 1
        /\ \E id \in TaskIds : taskSt[id] = "alive"


\* C19: when start() fails before the engine is fully Running, the engine
\* remains Stopped: running is false and no loop task and no capture worker
\* of that start is left alive.
C19_FailedStartStaysStopped ==
    lastOp = "start_failed" =>
        /\ ~running
        /\ \A id \in TaskIds : taskSt[id] # "alive"
        /\ ~Sniffing(runs)


\* the sends attempted in the pass that began last, in order
PassSends == SelectSeq(castLog.sent, LAMBDA e : e.pass = castLog.passes)

\* the observers whose send failed in that pass
PassFailed == {PassSends[i].to : i \in {j \in 1 .. Len(PassSends) : ~PassSends[j].ok}}

\* C12: a broadcast tick that finds no registered observer builds no snapshot,
\* serialises nothing and sends nothing.
C12_NoObserverNoSnapshot ==
    [][(clients = {} /\ lastOp' \in {"bcast_skip", "bcast_tick"})
          => (lastOp' = "bcast_skip" /\ castLog' = castLog /\ bc' = bc)]_vars

C12_Witness == lastOp = "bcast_skip" /\ clients = {} /\ running /\ castLog.snaps = 1

\* a pass that has just finished attempted one send to each of its observers
PassReachedAll ==
    (lastOp = "bcast_done") =>
        /\ Len(PassSends) = Len(bc.targets)
        /\ \A i \in 1 .. Len(bc.targets) :
              PassSends[i].to = bc.targets[i] /\ PassSends[i].payload = bc.payload
        /\ \A c \in PassFailed : c \notin clients

\* the step that finishes a pass removes the observers whose send failed in
\* it and nobody else
PassRemovesFailed ==
    (lastOp' = "bcast_done") =>
        clients' = clients \ {e.to : e \in {castLog'.sent[i] : i \in
                       {j \in 1 .. Len(castLog'.sent) :
                           castLog'.sent[j].pass = castLog'.passes /\ ~castLog'.sent[j].ok}}}

\* C13: in a broadcast pass a send failure to one observer does not prevent
\* the delivery to any other observer of the pass; once the pass has finished
\* every observer whose send failed is absent from the registry and those
\* whose send succeeded are still registered.
C13_SendFailureIsolated == []PassReachedAll /\ [][PassRemovesFailed]_vars

C13_Witness ==
    /\ lastOp = "bcast_done"
    /\ Len(bc.targets) = 2
    /\ ~PassSends[1].ok
    /\ PassSends[2].ok
    /\ clients = {bc.targets[2]}


\* the value of a member of a serialised snapshot
Member(payload, name) ==
    (CHOOSE m \in {payload[i] : i \in 1 .. Len(payload)} : m[1] = name)[2]

\* a tick that begins a pass builds one snapshot and serialises it once; the
\* payload holds the most recently inserted alerts and logs, oldest first, the
\* whole device table, the latest throughput and the status, as they are when
\* the pass begins, and the pass is addressed to the observers registered then
PassPayload ==
    (lastOp' = "bcast_tick") =>
        /\ castLog'.snaps = castLog.snaps + 1
        /\ castLog'.dumps = castLog.dumps + 1
        /\ Member(bc'.payload, "alerts") = LastN(histA, SNAP_ALERTS)
        /\ Member(bc'.payload, "logs") = LastN(logs, SNAP_LOGS)
        /\ Member(bc'.payload, "devices") = [i \in 1 .. Len(devices) |-> devices[i].val]
        /\ Member(bc'.payload, "inbound_mbps") = latest_in
        /\ Member(bc'.payload, "outbound_mbps") = latest_out
        /\ Member(bc'.payload, "status") = status
        /\ {bc'.targets[i] : i \in 1 .. Len(bc'.targets)} = clients
        /\ Len(bc'.targets) = Cardinality(clients)

\* every send of a pass carries the payload of the pass, and a finished pass
\* has sent it once to each of its observers
OnePayloadPerPass ==
    /\ castLog.snaps = castLog.passes
    /\ castLog.dumps = castLog.passes
    /\ \A i \in 1 .. Len(PassSends) :
          PassSends[i].payload = bc.payload /\ PassSends[i].to = bc.targets[i]
    /\ (lastOp = "bcast_done") => Len(PassSends) = Len(bc.targets)

\* C20: a broadcast tick with an observer builds exactly one snapshot and
\* serialises it once; it holds the at most SNAP_ALERTS most recently inserted
\* alerts and SNAP_LOGS most recently inserted logs in insertion order, the
\* full device table, the latest throughput and the status, and the identical
\* payload is sent to every observer registered when the pass began.
C20_OneSnapshotToAll == []OnePayloadPerPass /\ [][PassPayload]_vars

C20_Witness ==
    /\ lastOp = "bcast_done"
    /\ Len(bc.targets) = 2
    /\ Len(histA) > SNAP_ALERTS
    /\ Member(bc.payload, "alerts") = LastN(histA, SNAP_ALERTS)
    /\ Len(Member(bc.payload, "logs")) = SNAP_LOGS
    /\ Len(Member(bc.payload, "devices")) = 1
    /\ Member(bc.payload, "inbound_mbps") = RInt(60)
    /\ \A i \in 1 .. 2 : PassSends[i].ok


\* C21: with the capture facility, after a scan whose probe succeeded the
\* device table holds an entry keyed by IP for every IP/MAC pair the probe
\* collected, with a MAC the probe got for that IP, and an entry for the local
\* host's resolved IP.
C21_ScanFillsTable ==
    (lastOp = "scan" /\ scapy /\ ~lastScan.inp.fail) =>
        LET got == lastScan.inp.answered
        IN  /\ \A i \in 1 .. Len(got) :
                  \E k \in 1 .. Len(devices) :
                      /\ devices[k].key = got[i].addr
                      /\ devices[k].val.ip = got[i].addr
                      /\ \E j \in 1 .. Len(got) :
                            got[j].addr = got[i].addr /\ devices[k].val.mac = got[j].mac
            /\ lastScan.inp.local # NoIp =>
                  \E k \in 1 .. Len(devices) : devices[k].key = lastScan.inp.local


\* C22: SYN counting is a fixed window.  A SynScan alert is raised only for a
\* packet that is at least the 50th SYN-without-ACK packet of its source since
\* the last clear of the table, and every such packet raises exactly one once
\* its callback has returned: after a clear the source has to send 50 again.
C22_FixedSynWindow ==
    \A k \in 1 .. Len(wire) :
        LET e == wire[k]
            n == CountType(e.raised, "SynScan")
        IN  (CountsSyn(e.pkt) /\ e.ord >= 1) =>
                /\ n >= 1 => e.ord >= SYN_BURST
                /\ (e.ord >= SYN_BURST /\ \E w \in WorkerIds : wk[w].n = k /\ wk[w].pc = "filter")
                      => n = 1


\* C23: whatever the start() and stop() calls and the packets, at most one
\* capture worker is alive at any time: the worker of a start() that was
\* followed by stop() never runs alongside the worker of a later start().
C23_OneCaptureWorker ==
    Cardinality({w \in WorkerIds : Sniffing(w)}) <= 1


\* C24: outside a call of start() or stop(), the manager holds exactly four
\* task handles, one for each loop, when running is true, and no handle when
\* running is false.
C24_HandlesMatchRunning ==
    IF running
    THEN /\ Len(tasks) = 4
         /\ Cardinality(Handles) = 4
         /\ {LoopOf(id) : id \in Handles} =
                {"throughput", "device_scan", "housekeeping", "broadcast"}
    ELSE tasks = << >>

\* a second run has been stopped: no handle is held while its tasks have yet to
\* take their cancellation
C24_Witness ==
    /\ lastOp = "stop"
    /\ runs = 2
    /\ ~running
    /\ tasks = << >>
    /\ \E id \in TaskIds : taskSt[id] = "cancel"


\* C25: stop() on a running engine leaves the device table, the alert buffer,
\* the observer registry, the anomaly baseline, the latest throughput and the
\* status as they are and appends one "Monitoring stopped" entry to the logs,
\* its only change to the stores: a snapshot taken after it shows the status
\* and the data of before.
C25_StopKeepsData ==
    [][(lastOp' = "stop") =>
          /\ devices' = devices
          /\ alerts' = alerts
          /\ clients' = clients
          /\ << baseline_init, in_avg, out_avg, in_std, out_std >>' =
                << baseline_init, in_avg, out_avg, in_std, out_std >>
          /\ << latest_in, latest_out, status >>' = << latest_in, latest_out, status >>
          /\ logs' = LastN(Append(logs, SecurityLog(1, "INFO", "monitor",
                                                    "Monitoring stopped", NoIp)),
                           LOG_BUFFER)
          /\ \A name \in {"status", "inbound_mbps", "outbound_mbps", "devices", "alerts"} :
                Member(JsonDumps(Snapshot(0)), name)' = Member(JsonDumps(Snapshot(0)), name)]_vars

\* an engine stopped while its status is ALERT, with an alert, a device and an
\* observer
C25_Witness ==
    /\ lastOp = "stop"
    /\ status = "ALERT"
    /\ Snapshot(0).status = "ALERT"
    /\ alerts # << >>
    /\ devices # << >>
    /\ clients # {}
    /\ baseline_init


\* how many "Client disconnected" entries were logged for an observer
Byes(c) == Cardinality({i \in 1 .. Len(castLog.bye) : castLog.bye[i] = c})

\* C26: deregistration is idempotent under interleaving.  An observer removed
\* both by a failed send and by its connection handler, or unregistered while
\* a pass is iterating, is removed once with exactly one "Client disconnected"
\* entry, and the pass goes on to its remaining observers whether or not they
\* are still registered.
C26_UnregisterOnce ==
    /\ \A c \in everReg :
          /\ Byes(c) <= 1
          /\ c \notin clients <=> Byes(c) = 1
          /\ c \in castLog.hung => c \notin clients
    /\ (bc.pc = "send") => bc.i \in 1 .. Len(bc.targets)
    /\ (lastOp = "bcast_done") => Len(PassSends) = Len(bc.targets)

\* a finished pass of two observers: the send to the first failed and its
\* handler ended while the pass was iterating
C26_Witness ==
    /\ lastOp = "bcast_done"
    /\ Len(bc.targets) = 2
    /\ bc.targets[1] \in PassFailed
    /\ bc.targets[1] \in castLog.hung
    /\ Byes(bc.targets[1]) = 1
    /\ bc.targets[2] \in clients

====
